---- MODULE Spec2Model ----
(***************************************************************************)
(* Model of the poker engine (class PokerGame, newDeck/shuffle, evalFive,  *)
(* bestOf7) of src/src/server.js, lines 333-756.                           *)
(*                                                                         *)
(* Seat indices are 0-based as in the source; At(ps, i) reads players[i].  *)
(* Suits are written "S", "H", "D", "C" for the source's four suit glyphs. *)
(* The log, names, emoji, buyIns, minRaise, roundBets and lastAction are    *)
(* write-only or cosmetic in the engine and are not modelled.              *)
(***************************************************************************)
EXTENDS Integers, Sequences, FiniteSets, TLC

\* ---------------------------------------------------------------- bounds
\* hands are dealt at tables of up to NumIds seats; a larger table only
\* takes seats
NumIds == 3
\* the ids 1..NumFlaky are the players whose connection may drop
NumFlaky == 1
\* the ids 1..NumShort are the players who may sit down with a short stack
NumShort == 2
\* hands that may be dealt in one behaviour (caps handNumber)
MaxHands == 2
\* hands in which actions are explored; later hands are dealt, not played
MaxPlayedHands == 1
\* largest amount a client sends with an action (smallest is -1)
MaxAmount == 2
\* number of different outcomes of the random draws of shuffle()
NumShuffles == 1
\* largest starting stack handed to addPlayer
MaxStack == 4

\* the number of cards from which the hands given to evalFive are drawn
NumEvalCards == 9

\* ------------------------------------------------------------ DECK
RANKS == <<"2", "3", "4", "5", "6", "7", "8", "9", "10", "J", "Q", "K", "A">>

SUITS == <<"S", "H", "D", "C">>

\* RANKS.forEach((r, i) => RANK_VAL[r] = i + 2), for the 0-based index i
RANK_VAL == [r \in {RANKS[i] : i \in 1..13} |-> 1 + (CHOOSE i \in 1..13 : RANKS[i] = r)]

\* for (const s of SUITS) for (const r of RANKS) d.push({ r, s })
OrderedDeck ==
  [k \in 1..52 |-> [r |-> RANKS[((k - 1) % 13) + 1], s |-> SUITS[((k - 1) \div 13) + 1]]]

\* the value of an expression computed once: The({e(x) : x \in {v}}) is e(v)
The(S) == CHOOSE x \in S : TRUE

Swap(a, x, y) == [a EXCEPT ![x] = a[y], ![y] = a[x]]

\* The loop of shuffle(): i runs from a.length - 1 down to 1 (0-based) and
\* draws[i] is the outcome j of Math.floor(Math.random() * (i + 1)).
RECURSIVE shuffleLoop(_, _, _)
shuffleLoop(a, i, draws) ==
  IF i > 0
  THEN The({shuffleLoop(b, i - 1, draws) : b \in {Swap(a, i + 1, draws[i] + 1)}})
  ELSE a

shuffle(arr, draws) ==
  The({shuffleLoop(a, Len(a) - 1, d) : a \in {arr}, d \in {draws}})

newDeck(draws) == shuffle(OrderedDeck, draws)

\* Outcomes of the 51 calls of Math.random() in one shuffle(): draws[i] is the
\* index j drawn at loop index i, always in 0..i.  The first outcome leaves
\* 2S 3S, 2H 3H, AS AH, KS QS 9D 7C 5H on top of the deck: of two dealt
\* players the first makes a spade flush on the board AS AH KS QS 9D; of
\* three dealt players the third holds a pair of aces while the first two tie
\* on the board KS QS 9D 7C 5H.  The second leaves the pairs A-A, K-K, Q-Q,
\* J-J on top; further outcomes are generated arithmetically.
RandomDraws(k) ==
  IF k = 1 THEN
    <<0, 2, 0, 1, 2, 3, 4, 5, 6, 7, 8, 9, 10, 11, 12, 13, 14, 15, 16, 17, 18,
      19, 20, 21, 22, 23, 24, 25, 26, 27, 28, 29, 30, 31, 32, 34, 17, 6, 14,
      28, 16, 10, 33, 10, 11, 25, 12, 14, 13, 1, 0>>
  ELSE IF k = 2 THEN
    <<1, 2, 3, 4, 5, 6, 6, 6, 6, 10, 9, 6, 11, 12, 10, 16, 9, 6, 11, 12, 10,
      10, 22, 6, 16, 25, 22, 26, 9, 23, 24, 11, 25, 12, 30, 10, 27, 6, 16, 33,
      33, 22, 26, 22, 9, 23, 10, 24, 11, 25, 12>>
  ELSE [i \in 1..51 |-> (k * i + 7) % (i + 1)]

Shuffles == 1..NumShuffles

\* newDeck() under each outcome of the random draws
RECURSIVE deckLoop(_)
deckLoop(k) ==
  IF k > NumShuffles THEN <<>> ELSE <<newDeck(RandomDraws(k))>> \o deckLoop(k + 1)

ShuffledDeck == deckLoop(1)

\* --------------------------------------------------------- HAND EVALUATOR
\* Array.prototype.sort with (a, b) => b - a, as an insertion sort
RECURSIVE InsertDesc(_, _)
InsertDesc(s, v) ==
  IF s = <<>> THEN <<v>>
  ELSE IF v >= Head(s) THEN <<v>> \o s
  ELSE <<Head(s)>> \o InsertDesc(Tail(s), v)

RECURSIVE sortLoop(_, _, _)
sortLoop(s, k, acc) ==
  IF k > Len(s) THEN acc
  ELSE The({sortLoop(s, k + 1, a) : a \in {InsertDesc(acc, s[k])}})

SortDesc(s) == The({sortLoop(t, 1, <<>>) : t \in {s}})

Reverse(s) == [i \in 1..Len(s) |-> s[Len(s) + 1 - i]]

\* tieVals[k] || 0 for a 0-based index k
OrZero(s, k) == IF k + 1 <= Len(s) THEN s[k + 1] ELSE 0

\* Object.values(counts).sort((a, b) => b - a): the number of cards of each
\* distinct value of vals
freqOf(vals) ==
  SortDesc(SelectSeq([i \in 1..Len(vals) |->
                        IF \A j \in 1..(i - 1) : vals[j] # vals[i]
                        THEN Cardinality({j \in 1..Len(vals) : vals[j] = vals[i]})
                        ELSE 0],
                     LAMBDA f : f > 0))

\* The source's score is the double rank * 1e10 + tie, where tie is the sum
\* of the weighted tieVals and is below 1e10.  It is kept as the pair
\* <<rank, tie>> (the integers of the model checker are 32 bits wide);
\* comparing the pairs lexicographically is comparing the source's numbers.
scoreOf(vals, flush, freq) ==
  LET sorted == Reverse(vals)
      isWheel == sorted = <<2, 3, 4, 5, 14>>
      straight == isWheel \/ \A i \in 1..Len(sorted) : i = 1 \/ sorted[i] = sorted[i - 1] + 1
      pairs == Cardinality({i \in 1..Len(freq) : freq[i] = 2})
      rank == IF flush /\ straight THEN 8
              ELSE IF freq[1] = 4 THEN 7
              ELSE IF freq[1] = 3 /\ OrZero(freq, 1) = 2 THEN 6
              ELSE IF flush THEN 5
              ELSE IF straight THEN 4
              ELSE IF freq[1] = 3 THEN 3
              ELSE IF pairs = 2 THEN 2
              ELSE IF pairs = 1 THEN 1
              ELSE 0
      tieVals == IF isWheel THEN <<5, 4, 3, 2, 1>> ELSE vals
      tie == tieVals[1] * 10000000 + OrZero(tieVals, 1) * 100000 +
             OrZero(tieVals, 2) * 1000 + OrZero(tieVals, 3) * 10 + OrZero(tieVals, 4)
  IN The({[rank |-> rk, score |-> <<rk, tie>>] : rk \in {rank}})

evalFive(cards) ==
  The({The({scoreOf(vals, flush, freq) : freq \in {freqOf(vals)}}) :
         vals \in {SortDesc([i \in 1..Len(cards) |-> RANK_VAL[cards[i].r]])},
         flush \in {\A i \in 1..Len(cards) : cards[i].s = cards[1].s}})

\* h.score > best.score
ScoreGT(a, b) == a[1] > b[1] \/ (a[1] = b[1] /\ a[2] > b[2])

\* cards.filter((_, idx) => idx !== i && idx !== j), 0-based i < j
Without(cards, i, j) ==
  [k \in 1..(Len(cards) - 2) |->
     cards[IF k <= i THEN k ELSE IF k + 1 <= j THEN k + 1 ELSE k + 2]]

\* The hands evalFive returns in the two nested loops of bestOf7 over
\* 0 <= i < j < n, for the selections of five cards.
handsOf7(cards) ==
  {evalFive(five) :
     five \in {f \in {Without(cards, p[1], p[2]) :
                        p \in {q \in (0..(Len(cards) - 1)) \X (0..(Len(cards) - 1)) : q[1] < q[2]}} :
                 Len(f) = 5}}

\* best is replaced only by a hand of strictly higher score, so the loops
\* end with a hand of the highest score; hands of equal score are equal.
bestOf7(cards) ==
  The({The({IF hs # {} THEN CHOOSE h \in hs : \A y \in hs : ~ScoreGT(y.score, h.score)
            ELSE evalFive(SubSeq(c, 1, IF Len(c) < 5 THEN Len(c) ELSE 5)) :
              hs \in {handsOf7(c)}}) : c \in {cards}})

\* ------------------------------------------------------------ GAME ENGINE
DEFAULT_SMALL_BLIND == 25

DEFAULT_BIG_BLIND == 50

MaxSeats == 9

Streets == {"preflop", "flop", "turn", "river"}

\* players[i] for a 0-based index i
At(ps, i) == ps[i + 1]

Seats(g) == 0..(Len(g.players) - 1)

\* this.players.find(p => p.id === id): the 0-based index, -1 when absent
findPlayer(g, id) ==
  IF \E i \in Seats(g) : At(g.players, i).id = id
  THEN CHOOSE i \in Seats(g) :
         /\ At(g.players, i).id = id
         /\ \A j \in Seats(g) : At(g.players, j).id = id => i <= j
  ELSE -1

\* return values: error is "" on success; advance is "" unless applyAction
\* succeeded
Fail(msg) == [error |-> msg, advance |-> ""]

Success == [error |-> "", advance |-> ""]

Advance(a) == [error |-> "", advance |-> a]

\* state of a new PokerGame(roomId)
NewGame ==
  [players |-> <<>>, community |-> <<>>, pot |-> 0, sidePots |-> <<>>, deck |-> <<>>,
   phase |-> "waiting", dealerIndex |-> -1, currentIndex |-> -1, callAmount |-> 0,
   actedThisRound |-> {}, handNumber |-> 0,
   SMALL_BLIND |-> DEFAULT_SMALL_BLIND, BIG_BLIND |-> DEFAULT_BIG_BLIND, log |-> <<>>]

addPlayer_Over(g0, id, startingStack) ==
  The({The({IF e # -1 THEN
              IF ~At(g.players, e).connected
              THEN [g |-> [g EXCEPT !.players[e + 1].connected = TRUE], ret |-> Success]
              ELSE [g |-> g, ret |-> Fail("Already seated")]
            ELSE IF Len(g.players) > MaxSeats THEN [g |-> g, ret |-> Fail("Table is full")]
            ELSE [g |-> [g EXCEPT !.players =
                           Append(g.players,
                                  [id |-> id, chips |-> startingStack, hand |-> <<>>,
                                   bet |-> 0, folded |-> FALSE, allIn |-> FALSE,
                                   sitOut |-> FALSE, connected |-> TRUE,
                                   seatIndex |-> Len(g.players)])],
                  ret |-> Success] :
              e \in {findPlayer(g, id)}}) : g \in {g0}})

addPlayer(g0, id, startingStack) ==
  The({The({IF e # -1 THEN
              IF ~At(g.players, e).connected
              THEN [g |-> [g EXCEPT !.players[e + 1].connected = TRUE], ret |-> Success]
              ELSE [g |-> g, ret |-> Fail("Already seated")]
            ELSE IF Len(g.players) >= MaxSeats THEN [g |-> g, ret |-> Fail("Table is full")]
            ELSE [g |-> [g EXCEPT !.players =
                           Append(g.players,
                                  [id |-> id, chips |-> startingStack, hand |-> <<>>,
                                   bet |-> 0, folded |-> FALSE, allIn |-> FALSE,
                                   sitOut |-> FALSE, connected |-> TRUE,
                                   seatIndex |-> Len(g.players)])],
                  ret |-> Success] :
              e \in {findPlayer(g, id)}}) : g \in {g0}})

removePlayer_Fold(g0, id) ==
  The({The({IF e # -1 THEN [g EXCEPT !.players[e + 1].connected = FALSE,
                                      !.players[e + 1].folded = TRUE]
            ELSE g :
              e \in {findPlayer(g, id)}}) : g \in {g0}})

removePlayer(g0, id) ==
  The({The({IF e # -1 THEN [g EXCEPT !.players[e + 1].connected = FALSE] ELSE g :
              e \in {findPlayer(g, id)}}) : g \in {g0}})

reconnectPlayer(g0, id) ==
  The({The({IF e # -1 THEN [g EXCEPT !.players[e + 1].connected = TRUE] ELSE g :
              e \in {findPlayer(g, id)}}) : g \in {g0}})

activePlayers(g) ==
  {i \in Seats(g) : At(g.players, i).chips > 0 /\ At(g.players, i).connected
                      /\ ~At(g.players, i).sitOut}

inHandPlayers(g) ==
  {i \in Seats(g) : ~At(g.players, i).folded /\ Len(At(g.players, i).hand) = 2}

\* the while loop of nextActiveIndex
RECURSIVE nextActiveLoop(_, _, _, _)
nextActiveLoop(ps, i, step, count) ==
  IF (At(ps, i).folded \/ At(ps, i).allIn) /\ count < Len(ps)
  THEN The({nextActiveLoop(ps, i1, step, c1) :
              i1 \in {(i + step) % Len(ps)}, c1 \in {count + 1}})
  ELSE i

nextActiveIndex(g, from, step) ==
  The({nextActiveLoop(ps, i, step, 0) :
         ps \in {g.players}, i \in {(from + step) % Len(g.players)}})

postBlind_Full(g0, idx0, amount) ==
  The({The({[g EXCEPT !.players[idx + 1].chips = p.chips - actual,
                      !.players[idx + 1].bet = p.bet + actual,
                      !.players[idx + 1].allIn = IF p.chips - actual = 0 THEN TRUE ELSE p.allIn,
                      !.pot = g.pot + actual] :
              p \in {At(g.players, idx)},
              actual \in {amount}}) :
         g \in {g0}, idx \in {idx0}})

postBlind(g0, idx0, amount) ==
  The({The({[g EXCEPT !.players[idx + 1].chips = p.chips - actual,
                      !.players[idx + 1].bet = p.bet + actual,
                      !.players[idx + 1].allIn = IF p.chips - actual = 0 THEN TRUE ELSE p.allIn,
                      !.pot = g.pot + actual] :
              p \in {At(g.players, idx)},
              actual \in {IF amount < At(g.players, idx).chips THEN amount
                          ELSE At(g.players, idx).chips}}) :
         g \in {g0}, idx \in {idx0}})

\* startHand up to the reset of the players, the allIn flags left as they are
resetHand_KeepAllIn(g, settings, k) ==
  [g EXCEPT !.handNumber = g.handNumber + 1,
            !.SMALL_BLIND = IF settings.smallBlind # 0 THEN settings.smallBlind
                            ELSE g.SMALL_BLIND,
            !.BIG_BLIND = IF settings.bigBlind # 0 THEN settings.bigBlind ELSE g.BIG_BLIND,
            !.deck = ShuffledDeck[k], !.community = <<>>, !.pot = 0, !.sidePots = <<>>,
            !.callAmount = IF settings.bigBlind # 0 THEN settings.bigBlind ELSE g.BIG_BLIND,
            !.actedThisRound = {},
            !.players = [i \in 1..Len(g.players) |->
                           [g.players[i] EXCEPT
                              !.hand = <<>>, !.bet = 0,
                              !.folded = (g.players[i].chips <= 0 \/ ~g.players[i].connected
                                            \/ g.players[i].sitOut)]]]

\* startHand up to the reset of the players: the hand counter, the blinds
\* of the settings, the fresh deck and the cleared table.  A blind equal to 0
\* stands for an absent (falsy) setting; k names the outcome of the random
\* draws of newDeck().
resetHand(g, settings, k) ==
  [g EXCEPT !.handNumber = g.handNumber + 1,
            !.SMALL_BLIND = IF settings.smallBlind # 0 THEN settings.smallBlind
                            ELSE g.SMALL_BLIND,
            !.BIG_BLIND = IF settings.bigBlind # 0 THEN settings.bigBlind ELSE g.BIG_BLIND,
            !.deck = ShuffledDeck[k], !.community = <<>>, !.pot = 0, !.sidePots = <<>>,
            !.callAmount = IF settings.bigBlind # 0 THEN settings.bigBlind ELSE g.BIG_BLIND,
            !.actedThisRound = {},
            !.players = [i \in 1..Len(g.players) |->
                           [g.players[i] EXCEPT
                              !.hand = <<>>, !.bet = 0,
                              !.folded = (g.players[i].chips <= 0 \/ ~g.players[i].connected
                                            \/ g.players[i].sitOut),
                              !.allIn = FALSE]]]

\* this.dealerIndex = this.nextActiveIndex(this.dealerIndex, 1)
advanceDealer(g0) ==
  The({[g EXCEPT !.dealerIndex = nextActiveIndex(g, g.dealerIndex, 1)] : g \in {g0}})

\* for (const p of this.players) if (!p.folded) p.hand = [deck.pop(), deck.pop()]
RECURSIVE dealLoop(_, _)
dealLoop(g0, i0) ==
  The({IF i >= Len(g.players) THEN g
       ELSE IF At(g.players, i).folded THEN dealLoop(g, i + 1)
       ELSE dealLoop([g EXCEPT !.players[i + 1].hand =
                                  <<g.deck[Len(g.deck)], g.deck[Len(g.deck) - 1]>>,
                               !.deck = SubSeq(g.deck, 1, Len(g.deck) - 2)], i + 1) :
         g \in {g0}, i \in {i0}})

\* the blinds, the phase and the first seat to act
postBlinds(g0) ==
  The({The({The({[g5 EXCEPT !.phase = "preflop",
                            !.currentIndex = nextActiveIndex(g5, bbIdx, 1)] :
                   g5 \in {postBlind(postBlind(g3, sbIdx, g3.SMALL_BLIND),
                                     bbIdx, g3.BIG_BLIND)}}) :
              bbIdx \in {nextActiveIndex(g3, sbIdx, 1)}}) :
         g3 \in {g0}, sbIdx \in {nextActiveIndex(g0, g0.dealerIndex, 1)}})

startHand_SmallCall(g0, settings, k) ==
  The({IF Cardinality(activePlayers(g)) < 2
       THEN [g |-> g, ret |-> Fail("Need at least 2 players")]
       ELSE [g |-> The({[h EXCEPT !.callAmount = h.SMALL_BLIND] :
                          h \in {postBlinds(dealLoop(advanceDealer(resetHand(g, settings, k)), 0))}}),
             ret |-> Success] : g \in {g0}})

startHand(g0, settings, k) ==
  The({IF Cardinality(activePlayers(g)) < 2
       THEN [g |-> g, ret |-> Fail("Need at least 2 players")]
       ELSE [g |-> postBlinds(dealLoop(advanceDealer(resetHand(g, settings, k)), 0)),
             ret |-> Success] : g \in {g0}})

\* the for loop of findNextToAct
RECURSIVE findNextLoop(_, _, _)
findNextLoop(g, i0, count0) ==
  The({IF count >= Len(g.players) THEN -1
       ELSE IF /\ ~At(g.players, i).folded
               /\ ~At(g.players, i).allIn
               /\ \/ At(g.players, i).id \notin g.actedThisRound
                  \/ At(g.players, i).bet < g.callAmount
       THEN i
       ELSE findNextLoop(g, (i + 1) % Len(g.players), count + 1) :
         i \in {i0}, count \in {count0}})

\* findNextToAct starting its search one seat too far
findNextToAct_Skip(g) == findNextLoop(g, (g.currentIndex + 2) % Len(g.players), 0)

findNextToAct(g) == findNextLoop(g, (g.currentIndex + 1) % Len(g.players), 0)

\* The loop of showdown() over the seats: the score of the best hand of each
\* seat of stillIn, and <<-1, 0>> (below every score) for the other seats.
RECURSIVE handScores(_, _)
handScores(g, i0) ==
  The({IF i >= Len(g.players) THEN <<>>
       ELSE <<IF i \in inHandPlayers(g)
              THEN bestOf7(At(g.players, i).hand \o g.community).score
              ELSE <<-1, 0>>>> \o handScores(g, i + 1) : i \in {i0}})

\* bestScore starts at -1 and is raised by h.score > bestScore
RECURSIVE bestScoreLoop(_, _, _)
bestScoreLoop(scores, k0, best0) ==
  The({IF k > Len(scores) THEN best
       ELSE bestScoreLoop(scores, k + 1, IF ScoreGT(scores[k], best) THEN scores[k] ELSE best) :
         k \in {k0}, best \in {best0}})

\* the lines showdown() writes to the log with the cards of each player of
\* stillIn (`${p.name}: ${p.hand...} - ${h.name}`), newest first as unshift
\* leaves them
RECURSIVE showLines(_, _)
showLines(g, i0) ==
  The({IF i >= Len(g.players) THEN <<>>
       ELSE showLines(g, i + 1) \o
            (IF i \in inHandPlayers(g)
             THEN <<[name |-> At(g.players, i).id, cards |-> At(g.players, i).hand]>>
             ELSE <<>>) : i \in {i0}})

\* the first seat only of the results whose score is bestScore
winnersOf_First(g, scores) ==
  The({{i \in inHandPlayers(g) :
          /\ scores[i + 1] = bestScore
          /\ \A j \in inHandPlayers(g) : scores[j + 1] = bestScore => i <= j} :
         bestScore \in {bestScoreLoop(scores, 1, <<-1, 0>>)}})

\* the seats of the results whose score is bestScore
winnersOf(g, scores) ==
  The({{i \in inHandPlayers(g) : scores[i + 1] = bestScore} :
         bestScore \in {bestScoreLoop(scores, 1, <<-1, 0>>)}})

\* Math.floor(this.pot / winners.length) each to the winners
payWinners(g, winners) ==
  The({[g EXCEPT !.players = [k \in 1..Len(g.players) |->
                                IF (k - 1) \in winners
                                THEN [g.players[k] EXCEPT !.chips = g.players[k].chips + share]
                                ELSE g.players[k]],
                 !.pot = 0, !.phase = "waiting", !.log = showLines(g, 0) \o g.log] :
         share \in {g.pot \div Cardinality(winners)}})

showdown(g0) ==
  The({The({The({[g |-> payWinners(g, winners), ret |-> Advance("showdown")] :
                   winners \in {winnersOf(g, scores)}}) :
              scores \in {handScores(g, 0)}}) : g \in {g0}})

\* deck.pop() k times, each pushed on community in turn
dealCommunity_Peek(g0, k) ==
  The({[g EXCEPT !.community = g.community \o [i \in 1..k |-> g.deck[Len(g.deck) + 1 - i]],
                 !.deck = SubSeq(g.deck, 1, Len(g.deck) - 1)] : g \in {g0}})

dealCommunity(g0, k) ==
  The({[g EXCEPT !.community = g.community \o [i \in 1..k |-> g.deck[Len(g.deck) + 1 - i]],
                 !.deck = SubSeq(g.deck, 1, Len(g.deck) - k)] : g \in {g0}})

\* resetStreet handing the street's bets back to the players while they stay
\* in the pot
resetStreet_Refund(g) ==
  [g EXCEPT !.players = [i \in 1..Len(g.players) |->
                           [g.players[i] EXCEPT !.bet = 0,
                              !.chips = g.players[i].chips + g.players[i].bet]],
            !.callAmount = 0, !.actedThisRound = {}]

\* the reset of nextStreet: bets, callAmount and the acted set
resetStreet(g) ==
  [g EXCEPT !.players = [i \in 1..Len(g.players) |-> [g.players[i] EXCEPT !.bet = 0]],
            !.callAmount = 0, !.actedThisRound = {}]

\* nextStreet dealing a flop of two cards
nextStreet_ShortFlop(g0) ==
  The({IF g1.phase = "river" THEN showdown(g1)
       ELSE The({[g |-> [g2 EXCEPT !.currentIndex = nextActiveIndex(g2, g2.dealerIndex, 1)],
                  ret |-> Advance("new_street")] :
                   g2 \in {IF g1.phase = "preflop"
                           THEN [dealCommunity(g1, 2) EXCEPT !.phase = "flop"]
                           ELSE IF g1.phase = "flop"
                           THEN [dealCommunity(g1, 1) EXCEPT !.phase = "turn"]
                           ELSE IF g1.phase = "turn"
                           THEN [dealCommunity(g1, 1) EXCEPT !.phase = "river"]
                           ELSE g1}}) :
         g1 \in {resetStreet(g0)}})

nextStreet(g0) ==
  The({IF g1.phase = "river" THEN showdown(g1)
       ELSE The({[g |-> [g2 EXCEPT !.currentIndex = nextActiveIndex(g2, g2.dealerIndex, 1)],
                  ret |-> Advance("new_street")] :
                   g2 \in {IF g1.phase = "preflop"
                           THEN [dealCommunity(g1, 3) EXCEPT !.phase = "flop"]
                           ELSE IF g1.phase = "flop"
                           THEN [dealCommunity(g1, 1) EXCEPT !.phase = "turn"]
                           ELSE IF g1.phase = "turn"
                           THEN [dealCommunity(g1, 1) EXCEPT !.phase = "river"]
                           ELSE g1}}) :
         g1 \in {resetStreet(g0)}})

advanceTurn_KeepPot(g0) ==
  The({The({IF Cardinality(stillIn) = 1 THEN
              The({[g |-> [g EXCEPT !.players[w + 1].chips = At(g.players, w).chips + g.pot,
                                    !.phase = "waiting"],
                    ret |-> Advance("hand_over")] : w \in stillIn})
            ELSE The({IF next = -1 THEN nextStreet(g)
                      ELSE [g |-> [g EXCEPT !.currentIndex = next],
                            ret |-> Advance("next_turn")] :
                        next \in {findNextToAct(g)}}) :
              stillIn \in {inHandPlayers(g)}}) : g \in {g0}})

advanceTurn(g0) ==
  The({The({IF Cardinality(stillIn) = 1 THEN
              The({[g |-> [g EXCEPT !.players[w + 1].chips = At(g.players, w).chips + g.pot,
                                    !.pot = 0, !.phase = "waiting"],
                    ret |-> Advance("hand_over")] : w \in stillIn})
            ELSE The({IF next = -1 THEN nextStreet(g)
                      ELSE [g |-> [g EXCEPT !.currentIndex = next],
                            ret |-> Advance("next_turn")] :
                        next \in {findNextToAct(g)}}) :
              stillIn \in {inHandPlayers(g)}}) : g \in {g0}})

Actions == {"fold", "check", "call", "raise", "allin", "bogus"}

\* actedThenAdvance forgetting to record that the player acted
actedThenAdvance_Forget(g, playerId) ==
  advanceTurn([g EXCEPT !.actedThisRound = g.actedThisRound \ {playerId}])

\* this.actedThisRound.add(playerId); return this.advanceTurn()
actedThenAdvance(g, playerId) ==
  advanceTurn([g EXCEPT !.actedThisRound = g.actedThisRound \cup {playerId}])

\* case 'call', for the player p at seat c
callAction(g, c, p, toCall) ==
  The({actedThenAdvance(
         [g EXCEPT !.players[c + 1].chips = p.chips - amt,
                   !.players[c + 1].bet = p.bet + amt,
                   !.players[c + 1].allIn = IF p.chips - amt = 0 THEN TRUE ELSE p.allIn,
                   !.pot = g.pot + amt], p.id) :
         amt \in {IF toCall < p.chips THEN toCall ELSE p.chips}})

\* case 'raise' without this.actedThisRound.clear()
raiseAction_NoClear(g, c, p, amount) ==
  IF amount <= g.callAmount
  THEN [g |-> g, ret |-> Fail("Raise must be higher than call amount")]
  ELSE IF amount > p.chips + p.bet THEN [g |-> g, ret |-> Fail("Not enough chips")]
  ELSE The({actedThenAdvance(
              [g EXCEPT !.players[c + 1].chips = p.chips - extra,
                        !.players[c + 1].bet = amount,
                        !.players[c + 1].allIn = IF p.chips - extra = 0 THEN TRUE ELSE p.allIn,
                        !.pot = g.pot + extra,
                        !.callAmount = amount], p.id) :
              extra \in {amount - p.bet}})

\* case 'raise', for the player p at seat c
raiseAction(g, c, p, amount) ==
  IF amount <= g.callAmount
  THEN [g |-> g, ret |-> Fail("Raise must be higher than call amount")]
  ELSE IF amount > p.chips + p.bet THEN [g |-> g, ret |-> Fail("Not enough chips")]
  ELSE The({actedThenAdvance(
              [g EXCEPT !.players[c + 1].chips = p.chips - extra,
                        !.players[c + 1].bet = amount,
                        !.players[c + 1].allIn = IF p.chips - extra = 0 THEN TRUE ELSE p.allIn,
                        !.pot = g.pot + extra,
                        !.callAmount = amount,
                        !.actedThisRound = {}], p.id) :
              extra \in {amount - p.bet}})

\* case 'allin' leaving callAmount as it is when the bet exceeds it
allinAction_NoRaise(g, c, p) ==
  The({actedThenAdvance(
         [g EXCEPT !.players[c + 1].chips = 0,
                   !.players[c + 1].bet = p.bet + amt,
                   !.players[c + 1].allIn = TRUE,
                   !.pot = g.pot + amt,
                   !.actedThisRound = IF raised THEN {} ELSE g.actedThisRound], p.id) :
         amt \in {p.chips}, raised \in {p.bet + p.chips > g.callAmount}})

\* case 'allin', for the player p at seat c
allinAction(g, c, p) ==
  The({actedThenAdvance(
         [g EXCEPT !.players[c + 1].chips = 0,
                   !.players[c + 1].bet = p.bet + amt,
                   !.players[c + 1].allIn = TRUE,
                   !.pot = g.pot + amt,
                   !.callAmount = IF raised THEN p.bet + amt ELSE g.callAmount,
                   !.actedThisRound = IF raised THEN {} ELSE g.actedThisRound], p.id) :
         amt \in {p.chips}, raised \in {p.bet + p.chips > g.callAmount}})

\* the switch of applyAction marking the player as having acted before the
\* test of 'check'
applySwitch_MarkFirst(g, c, p, toCall, action, amount) ==
  CASE action = "fold" ->
         actedThenAdvance([g EXCEPT !.players[c + 1].folded = TRUE], p.id)
    [] action = "check" ->
         IF toCall > 0
         THEN [g |-> [g EXCEPT !.actedThisRound = g.actedThisRound \cup {p.id}],
               ret |-> Fail("Cannot check, must call or fold")]
         ELSE actedThenAdvance(g, p.id)
    [] action = "call" -> callAction(g, c, p, toCall)
    [] action = "raise" -> raiseAction(g, c, p, amount)
    [] action = "allin" -> allinAction(g, c, p)
    [] OTHER -> [g |-> g, ret |-> Fail("Unknown action")]

\* the switch of applyAction for the player p at seat c, with toCall the
\* chips p lacks to match callAmount
applySwitch(g, c, p, toCall, action, amount) ==
  CASE action = "fold" ->
         actedThenAdvance([g EXCEPT !.players[c + 1].folded = TRUE], p.id)
    [] action = "check" ->
         IF toCall > 0 THEN [g |-> g, ret |-> Fail("Cannot check, must call or fold")]
         ELSE actedThenAdvance(g, p.id)
    [] action = "call" -> callAction(g, c, p, toCall)
    [] action = "raise" -> raiseAction(g, c, p, amount)
    [] action = "allin" -> allinAction(g, c, p)
    [] OTHER -> [g |-> g, ret |-> Fail("Unknown action")]

applyAction(g0, playerId, action, amount) ==
  The({IF g.currentIndex < 0 \/ g.currentIndex >= Len(g.players)
            \/ At(g.players, g.currentIndex).id # playerId
       THEN [g |-> g, ret |-> Fail("Not your turn")]
       ELSE The({applySwitch(g, c, p, g.callAmount - p.bet, action, amount) :
                   c \in {g.currentIndex}, p \in {At(g.players, g.currentIndex)}}) :
         g \in {g0}})

getCurrentPlayer(g) == IF g.currentIndex < 0 THEN -1 ELSE g.currentIndex

\* the source's null, where a hand is expected
NullHand == <<[r |-> "null", s |-> "null"]>>

\* the length of the slice of the log that getStateFor returns
LogSlice == 20

getStateFor_Open(g, playerId) ==
  [phase |-> g.phase, pot |-> g.pot, community |-> g.community,
   dealerIndex |-> g.dealerIndex,
   currentPlayerId |-> IF g.currentIndex \in Seats(g) THEN At(g.players, g.currentIndex).id
                       ELSE 0,
   callAmount |-> g.callAmount, handNumber |-> g.handNumber,
   players |-> [i \in 1..Len(g.players) |->
                  [id |-> g.players[i].id, chips |-> g.players[i].chips,
                   bet |-> g.players[i].bet, folded |-> g.players[i].folded,
                   allIn |-> g.players[i].allIn, connected |-> g.players[i].connected,
                   seatIndex |-> g.players[i].seatIndex,
                   cardCount |-> Len(g.players[i].hand),
                   hand |-> IF g.players[i].id = playerId \/ g.phase \in {"showdown", "waiting"}
                            THEN g.players[i].hand ELSE NullHand]],
   log |-> SubSeq(g.log, 1, IF Len(g.log) < LogSlice THEN Len(g.log) ELSE LogSlice)]

\* getStateFor(playerId); playerId 0 stands for null, and currentPlayerId 0
\* for null
getStateFor(g, playerId) ==
  [phase |-> g.phase, pot |-> g.pot, community |-> g.community,
   dealerIndex |-> g.dealerIndex,
   currentPlayerId |-> IF g.currentIndex \in Seats(g) THEN At(g.players, g.currentIndex).id
                       ELSE 0,
   callAmount |-> g.callAmount, handNumber |-> g.handNumber,
   players |-> [i \in 1..Len(g.players) |->
                  [id |-> g.players[i].id, chips |-> g.players[i].chips,
                   bet |-> g.players[i].bet, folded |-> g.players[i].folded,
                   allIn |-> g.players[i].allIn, connected |-> g.players[i].connected,
                   seatIndex |-> g.players[i].seatIndex,
                   cardCount |-> Len(g.players[i].hand),
                   hand |-> IF g.players[i].id = playerId \/ g.phase = "showdown"
                            THEN g.players[i].hand ELSE NullHand]],
   log |-> SubSeq(g.log, 1, IF Len(g.log) < LogSlice THEN Len(g.log) ELSE LogSlice)]

\* ---------------------------------------------------------- STATE MACHINE
\* The fields of one PokerGame (of the log, only the lines that carry cards);
\* two history variables: lastCall, the last call of addPlayer, startHand or
\* applyAction that succeeded, with the advance it returned, and committed,
\* the chips each seat has paid into the pot since the startHand of the hand
\* in progress; the two hands handed to evalFive with the scores it
\* returned, for the specification of the hand evaluator; and turnTimers,
\* whether the server holds a pending turn timer for the room.
VARIABLES players, community, pot, sidePots, deck, phase, dealerIndex, currentIndex,
          callAmount, actedThisRound, handNumber, SMALL_BLIND, BIG_BLIND, log,
          lastCall, committed, evalIn, evalOut, turnTimers

gameVars == <<players, community, pot, sidePots, deck, phase, dealerIndex, currentIndex,
              callAmount, actedThisRound, handNumber, SMALL_BLIND, BIG_BLIND, log>>

vars == <<players, community, pot, sidePots, deck, phase, dealerIndex, currentIndex,
          callAmount, actedThisRound, handNumber, SMALL_BLIND, BIG_BLIND, log,
          lastCall, committed, evalIn, evalOut, turnTimers>>

Game ==
  [players |-> players, community |-> community, pot |-> pot, sidePots |-> sidePots,
   deck |-> deck, phase |-> phase, dealerIndex |-> dealerIndex,
   currentIndex |-> currentIndex, callAmount |-> callAmount,
   actedThisRound |-> actedThisRound, handNumber |-> handNumber,
   SMALL_BLIND |-> SMALL_BLIND, BIG_BLIND |-> BIG_BLIND, log |-> log]

InstallGame(g) ==
  /\ players' = g.players
  /\ community' = g.community
  /\ pot' = g.pot
  /\ sidePots' = g.sidePots
  /\ deck' = g.deck
  /\ phase' = g.phase
  /\ dealerIndex' = g.dealerIndex
  /\ currentIndex' = g.currentIndex
  /\ callAmount' = g.callAmount
  /\ actedThisRound' = g.actedThisRound
  /\ handNumber' = g.handNumber
  /\ SMALL_BLIND' = g.SMALL_BLIND
  /\ BIG_BLIND' = g.BIG_BLIND
  /\ log' = g.log
  /\ UNCHANGED <<evalIn, evalOut>>

\* a call of the engine, which leaves the server's turn timer alone
Install(g) == InstallGame(g) /\ UNCHANGED turnTimers

\* ------------------------------------------------------ inputs of the calls
\* ids that call the engine: the seated ones and one that is not seated (the
\* server draws a fresh uuid for every new player)
CallerIds == 1..(Len(players) + 1)

\* starting stacks: the full one, and a short one of a single chip
Stacks(id) == IF id <= NumShort THEN {1, MaxStack} ELSE {MaxStack}

Amounts == (-1)..MaxAmount

AmountsOf(action) == IF action = "raise" THEN Amounts ELSE {0}

\* the settings object handed to startHand: the room's blinds
SettingsChoices == {[smallBlind |-> 1, bigBlind |-> 2]}

Flaky == 1..NumFlaky

Call(op, ret) ==
  IF ret.error # "" THEN lastCall ELSE [op |-> op, advance |-> ret.advance]

\* chips paid by each seat of g2 since the startHand of the hand, given what
\* was paid up to g1 (before); nothing is tracked between hands
Paid(g1, g2, before) ==
  IF g2.phase \notin Streets THEN <<>>
  ELSE [k \in 1..Len(g2.players) |->
          (IF k <= Len(before) THEN before[k] ELSE 0) +
          (IF k <= Len(g1.players) THEN g1.players[k].chips - g2.players[k].chips ELSE 0)]

Init ==
  /\ players = <<>>
  /\ community = <<>>
  /\ pot = 0
  /\ sidePots = <<>>
  /\ deck = <<>>
  /\ phase = "waiting"
  /\ dealerIndex = -1
  /\ currentIndex = -1
  /\ callAmount = 0
  /\ actedThisRound = {}
  /\ handNumber = 0
  /\ SMALL_BLIND = DEFAULT_SMALL_BLIND
  /\ BIG_BLIND = DEFAULT_BIG_BLIND
  /\ log = <<>>
  /\ lastCall = [op |-> "new", advance |-> ""]
  /\ committed = <<>>
  /\ evalIn = <<>>
  /\ evalOut = <<>>
  /\ turnTimers = FALSE

\* Seats are taken between hands; the seats beyond NumIds are taken before
\* the first hand.
AddPlayer(id, startingStack) ==
  /\ phase = "waiting"
  /\ findPlayer(Game, id) # -1 \/ Len(players) < NumIds \/ handNumber = 0
  /\ \E r \in {addPlayer(Game, id, startingStack)} :
       /\ Install(r.g)
       /\ lastCall' = Call("addPlayer", r.ret)
       /\ committed' = Paid(Game, r.g, committed)

RemovePlayer(id) ==
  /\ Install(removePlayer(Game, id))
  /\ UNCHANGED <<lastCall, committed>>

ReconnectPlayer(id) ==
  /\ Install(reconnectPlayer(Game, id))
  /\ UNCHANGED <<lastCall, committed>>

StartHand(settings, k) ==
  /\ handNumber < MaxHands
  /\ Len(players) <= NumIds
  /\ \E r \in {startHand(Game, settings, k)} :
       /\ Install(r.g)
       /\ lastCall' = Call("startHand", r.ret)
       /\ committed' = IF r.ret.error = "" THEN Paid(Game, r.g, <<>>) ELSE committed

ApplyAction(id, action, amount) ==
  /\ handNumber <= MaxPlayedHands
  /\ \E r \in {applyAction(Game, id, action, amount)} :
       /\ Install(r.g)
       /\ lastCall' = Call("applyAction", r.ret)
       /\ committed' = IF r.ret.error = "" THEN Paid(Game, r.g, committed) ELSE committed

Next ==
  \/ \E id \in CallerIds : \E st \in Stacks(id) : AddPlayer(id, st)
  \/ \E id \in Flaky : RemovePlayer(id)
  \/ \E id \in Flaky : ReconnectPlayer(id)
  \/ \E se \in SettingsChoices, k \in Shuffles : StartHand(se, k)
  \/ \E id \in CallerIds, a \in Actions : \E amt \in AmountsOf(a) : ApplyAction(id, a, amt)

Spec == Init /\ [][Next]_vars

\* ------------------------------------------------------------------ SERVER
\* defaultSettings().turnTimer, the seconds per turn (0 = no limit)
DEFAULT_TURN_TIMER == 30

\* clearTurnTimer: no timer is pending for the room
clearTurnTimer == FALSE

\* startTurnTimer: nothing when the setting is 0, else the pending timer is
\* cleared and a new one scheduled
startTurnTimer(timer) == IF DEFAULT_TURN_TIMER = 0 THEN timer ELSE TRUE

\* the tail shared by the game:action handler and the timer callback: a
\* timer is started unless the hand is over
afterAdvance(ret, timer) ==
  IF ret.advance = "hand_over" \/ ret.advance = "showdown" THEN timer
  ELSE startTurnTimer(timer)

\* socket.on('game:deal') from the host: [g, ret, timer]
gameDeal(g, settings, k) ==
  The({[g |-> r.g, ret |-> r.ret,
        timer |-> IF r.ret.error # "" THEN clearTurnTimer
                  ELSE startTurnTimer(clearTurnTimer)] :
         r \in {startHand(g, settings, k)}})

\* socket.on('game:action') from the socket of playerId: [g, ret, timer]
gameAction(g, playerId, action, amount) ==
  The({[g |-> r.g, ret |-> r.ret,
        timer |-> IF r.ret.error # "" THEN clearTurnTimer
                  ELSE afterAdvance(r.ret, clearTurnTimer)] :
         r \in {applyAction(g, playerId, action, amount)}})

\* the callback of the turn timer: the current player is folded
timerFires(g) ==
  IF getCurrentPlayer(g) = -1 THEN [g |-> g, ret |-> Fail("no player"), timer |-> FALSE]
  ELSE The({[g |-> r.g, ret |-> r.ret, timer |-> afterAdvance(r.ret, FALSE)] :
              r \in {applyAction(g, At(g.players, getCurrentPlayer(g)).id, "fold", 0)}})

\* the players that hold a socket in the room
Senders == {At(players, i).id : i \in {j \in Seats(Game) : At(players, j).connected}}

Handled(op, r) ==
  /\ InstallGame(r.g)
  /\ turnTimers' = r.timer
  /\ lastCall' = Call(op, r.ret)
  /\ committed' = IF r.ret.error # "" THEN committed
                  ELSE Paid(Game, r.g, IF op = "startHand" THEN <<>> ELSE committed)

GameDeal(settings, k) ==
  /\ handNumber < MaxHands
  /\ Len(players) <= NumIds
  /\ Handled("startHand", gameDeal(Game, settings, k))

GameAction(id, action, amount) ==
  /\ handNumber <= MaxPlayedHands
  /\ Handled("applyAction", gameAction(Game, id, action, amount))

TimerFires ==
  /\ turnTimers
  /\ handNumber <= MaxPlayedHands
  /\ Handled("applyAction", timerFires(Game))

\* room:join and disconnect reach the engine's addPlayer, reconnectPlayer
\* and removePlayer and leave the timer alone
ServerNext ==
  \/ \E id \in CallerIds : \E st \in Stacks(id) : AddPlayer(id, st)
  \/ \E id \in Flaky : RemovePlayer(id)
  \/ \E id \in Flaky : ReconnectPlayer(id)
  \/ \E se \in SettingsChoices, k \in Shuffles : GameDeal(se, k)
  \/ \E id \in Senders, a \in Actions : \E amt \in AmountsOf(a) : GameAction(id, a, amt)
  \/ TimerFires

ServerSpec == Init /\ [][ServerNext]_vars

\* a successful action, as the seat to act submits one
Play ==
  \E id \in CallerIds, a \in Actions : \E amt \in AmountsOf(a) :
    /\ applyAction(Game, id, a, amt).ret.error = ""
    /\ ApplyAction(id, a, amt)

\* the game when the seat to act keeps submitting successful actions
HandSpec == Init /\ [][Next]_vars /\ WF_vars(Play)

\* ------------------------------------------------------------ PROPERTIES
RECURSIVE SumSeq(_)
SumSeq(s) == IF s = <<>> THEN 0 ELSE Head(s) + SumSeq(Tail(s))

\* sum over all players of chips, and of bet
TotalChips(ps) == SumSeq([i \in 1..Len(ps) |-> ps[i].chips])

TotalBets(ps) == SumSeq([i \in 1..Len(ps) |-> ps[i].bet])

\* the outcomes [g, ret] of the calls of applyAction that succeed in the
\* current state
Outcomes ==
  {r \in {applyAction(Game, id, a, amt) : id \in CallerIds, a \in Actions, amt \in Amounts} :
     r.ret.error = ""}

\* those that leave the hand in progress unsettled, and those that settle it
BettingOutcomes == {r \in Outcomes : phase \in Streets /\ r.g.phase \in Streets}

SettlingOutcomes ==
  {r \in Outcomes : phase \in Streets /\ r.ret.advance \in {"hand_over", "showdown"}}

\* C1 as stated: every successful applyAction of a hand that does not settle
\* it keeps the value of sum(chips) + sum(bet) + pot.
C1_ChipsBetsPotConstant ==
  \A r \in BettingOutcomes :
    TotalChips(r.g.players) + TotalBets(r.g.players) + r.g.pot
      = TotalChips(players) + TotalBets(players) + pot

\* C1 amended: every successful applyAction of a hand that does not settle it
\* keeps the value of sum(chips) + pot (the pot already holds the bets, which
\* are only the per-street record of what each player put in).
C1_ChipsPotConstant ==
  \A r \in BettingOutcomes :
    TotalChips(r.g.players) + r.g.pot = TotalChips(players) + pot

\* a call after the blinds has closed the first betting round
C1_Witness ==
  /\ lastCall = [op |-> "applyAction", advance |-> "new_street"]
  /\ phase = "flop"
  /\ pot > SMALL_BLIND + BIG_BLIND

\* C2 as stated: every settlement (hand_over or showdown) credits exactly the
\* pot to the winners, so sum(chips) + pot is the same before and after it.
C2_SettlementConserves ==
  \A r \in SettlingOutcomes :
    /\ r.g.pot = 0
    /\ TotalChips(r.g.players) + r.g.pot = TotalChips(players) + pot

\* C3 as stated: while a hand is in progress currentIndex never designates a
\* folded or all-in player, and no applyAction by a folded or all-in player
\* succeeds.
C3_FoldedOrAllInNeverActs ==
  phase \in Streets =>
    /\ currentIndex \in Seats(Game) =>
         /\ ~At(players, currentIndex).folded
         /\ ~At(players, currentIndex).allIn
    /\ \A i \in Seats(Game), a \in Actions, amt \in Amounts :
         At(players, i).folded \/ At(players, i).allIn =>
           applyAction(Game, At(players, i).id, a, amt).ret.error # ""

\* a hand is in progress and currentIndex designates a seat
TurnOpen == phase \in Streets /\ currentIndex \in Seats(Game)

\* the player at currentIndex
Actor == At(players, currentIndex)

\* the seats other than c that are neither folded nor all-in
OthersAble(g, c) ==
  {i \in Seats(g) \ {c} : ~At(g.players, i).folded /\ ~At(g.players, i).allIn}

\* applyAction(raise, amt) by the player at currentIndex fails exactly when
\* the source's two tests say so, with the first test's message first
RaiseGuard(amt, r) ==
  /\ r.ret.error = "" <=> (callAmount < amt /\ amt <= Actor.chips + Actor.bet)
  /\ amt <= callAmount => r.ret.error = "Raise must be higher than call amount"
  /\ amt > callAmount /\ amt > Actor.chips + Actor.bet => r.ret.error = "Not enough chips"

\* C11 as stated: a raise by the seat at currentIndex succeeds iff
\* callAmount < amount <= chips + bet, fails with the two messages otherwise,
\* and on success leaves bet = amount, callAmount = amount, chips lowered by
\* amount - previous bet, allIn iff chips = 0 and the acted set reset to the
\* raiser alone.
C11_Raise ==
  TurnOpen =>
    \A amt \in Amounts :
      \A r \in {applyAction(Game, Actor.id, "raise", amt)} :
        /\ RaiseGuard(amt, r)
        /\ r.ret.error = "" =>
             \A q \in {At(r.g.players, currentIndex)} :
               /\ q.bet = amt
               /\ r.g.callAmount = amt
               /\ q.chips = Actor.chips - (amt - Actor.bet)
               /\ q.chips >= 0
               /\ q.allIn <=> q.chips = 0
               /\ r.g.actedThisRound = {Actor.id}

\* C11 amended: the guard and the chips are as stated; bet = amount,
\* callAmount = amount and the acted set reset to the raiser alone hold when
\* another seat is neither folded nor all-in, and the call then returns
\* next_turn for such a seat; when no such seat exists the same call closes
\* the street, so bets and callAmount are back to 0 (or the hand is settled).
C11_RaiseThenAdvance ==
  TurnOpen =>
    \A amt \in Amounts :
      \A r \in {applyAction(Game, Actor.id, "raise", amt)} :
        /\ RaiseGuard(amt, r)
        /\ r.ret.error = "" =>
             \A q \in {At(r.g.players, currentIndex)} :
               /\ r.ret.advance = "next_turn" <=> OthersAble(Game, currentIndex) # {}
               /\ r.ret.advance = "next_turn" =>
                    /\ q.bet = amt
                    /\ r.g.callAmount = amt
                    /\ r.g.actedThisRound = {Actor.id}
                    /\ r.g.currentIndex \in OthersAble(Game, currentIndex)
               /\ r.ret.advance = "new_street" =>
                    /\ q.bet = 0
                    /\ r.g.callAmount = 0
                    /\ r.g.actedThisRound = {}
               /\ r.ret.advance \in {"next_turn", "new_street"} =>
                    /\ q.chips = Actor.chips - (amt - Actor.bet)
                    /\ r.g.pot = pot + (amt - Actor.bet)
               /\ r.ret.advance \in {"showdown", "hand_over"} =>
                    /\ r.g.phase = "waiting"
                    /\ q.chips >= Actor.chips - (amt - Actor.bet)
               /\ q.chips >= 0
               /\ q.allIn <=> (Actor.chips - (amt - Actor.bet) = 0)

\* a raise on the flop has passed the turn to the next player
C11_Witness ==
  /\ phase = "flop"
  /\ lastCall = [op |-> "applyAction", advance |-> "next_turn"]
  /\ callAmount > 0
  /\ \E i \in Seats(Game) :
       /\ At(players, i).bet = callAmount
       /\ ~At(players, i).allIn
       /\ actedThisRound = {At(players, i).id}
       /\ currentIndex \in OthersAble(Game, i)

\* C12 as stated: allin by the seat at currentIndex leaves chips = 0, allIn
\* = true and all the chips in bet and pot; a bet above callAmount becomes
\* the callAmount and resets the acted set to the player alone, a bet not
\* above it leaves callAmount and the other acted players as they are.
C12_AllIn ==
  TurnOpen =>
    \A r \in {applyAction(Game, Actor.id, "allin", 0)} :
      \A q \in {At(r.g.players, currentIndex)} :
        /\ r.ret.error = ""
        /\ q.chips = 0
        /\ q.allIn
        /\ q.bet = Actor.bet + Actor.chips
        /\ r.g.pot = pot + Actor.chips
        /\ Actor.bet + Actor.chips > callAmount =>
             /\ r.g.callAmount = Actor.bet + Actor.chips
             /\ r.g.actedThisRound = {Actor.id}
        /\ Actor.bet + Actor.chips <= callAmount =>
             /\ r.g.callAmount = callAmount
             /\ r.g.actedThisRound = actedThisRound \cup {Actor.id}

\* C12 amended: allin always succeeds and leaves allIn = true; the stated
\* values of bet, callAmount and the acted set hold when the call returns
\* next_turn, which it does iff some other seat, neither folded nor all-in,
\* has not acted or has a bet below the new callAmount; otherwise the same
\* call closes the street (bets and callAmount back to 0) or settles the
\* hand, and chips = 0 holds unless the settlement pays the player.
C12_AllInThenAdvance ==
  TurnOpen =>
    \A r \in {applyAction(Game, Actor.id, "allin", 0)} :
      \A q \in {At(r.g.players, currentIndex)}, total \in {Actor.bet + Actor.chips} :
        /\ r.ret.error = ""
        /\ q.allIn
        /\ r.ret.advance = "next_turn" <=>
             \E i \in OthersAble(Game, currentIndex) :
               \/ total > callAmount
               \/ At(players, i).id \notin actedThisRound
               \/ At(players, i).bet < callAmount
        /\ r.ret.advance = "next_turn" =>
             /\ q.bet = total
             /\ r.g.currentIndex \in OthersAble(Game, currentIndex)
             /\ total > callAmount =>
                  /\ r.g.callAmount = total
                  /\ r.g.actedThisRound = {Actor.id}
             /\ total <= callAmount =>
                  /\ r.g.callAmount = callAmount
                  /\ r.g.actedThisRound = actedThisRound \cup {Actor.id}
        /\ r.ret.advance = "new_street" =>
             /\ q.bet = 0
             /\ r.g.callAmount = 0
             /\ r.g.actedThisRound = {}
        /\ r.ret.advance \in {"next_turn", "new_street"} =>
             /\ q.chips = 0
             /\ r.g.pot = pot + Actor.chips
        /\ r.ret.advance \in {"showdown", "hand_over"} => r.g.phase = "waiting"

\* an all-in above callAmount has passed the turn to a player who had acted
C12_Witness ==
  /\ phase \in Streets
  /\ lastCall = [op |-> "applyAction", advance |-> "next_turn"]
  /\ \E i \in Seats(Game) :
       /\ At(players, i).allIn
       /\ At(players, i).bet = callAmount
       /\ At(players, i).bet > BIG_BLIND
       /\ actedThisRound = {At(players, i).id}

\* the successful applyAction calls on the game g
OutcomesOf(g) ==
  {r \in {applyAction(g, id, a, amt) : id \in CallerIds, a \in Actions, amt \in Amounts} :
     r.ret.error = ""}

\* the seats of a hand in progress that could still be asked to act, the
\* seat to act excepted
Waiting == {i \in Seats(Game) \ {currentIndex} :
              /\ At(players, i).connected
              /\ ~At(players, i).folded
              /\ ~At(players, i).allIn
              /\ Len(At(players, i).hand) = 2}

\* C13: when removePlayer(id) is called during a hand for a player who is
\* not the one to act, no following action of another player that leaves
\* the hand in progress advances currentIndex to the seat of id.
C13_DisconnectedSkipped ==
  phase \in Streets =>
    \A i \in Waiting :
      \A r \in OutcomesOf(removePlayer(Game, At(players, i).id)) :
        r.g.phase \in Streets => r.g.currentIndex # i

\* the ids of the seats of g, in seat order
SeatIds(g) == [i \in 1..Len(g.players) |-> g.players[i].id]

\* the results of every engine call that can be made on the state
AnyCall ==
  {r.g : r \in Outcomes} \cup
  {startHand(Game, settings, k).g : settings \in SettingsChoices, k \in Shuffles} \cup
  UNION {{addPlayer(Game, id, c).g : c \in Stacks(id)} : id \in CallerIds} \cup
  {removePlayer(Game, id) : id \in CallerIds} \cup
  {reconnectPlayer(Game, id) : id \in CallerIds}

\* C14: addPlayer(id) reconnects a seated, disconnected id and changes
\* nothing else; fails with 'Already seated' for a seated, connected id;
\* otherwise fails with 'Table is full' when 9 seats exist; otherwise appends
\* one seat whose seatIndex is the previous number of seats. The table never
\* has more than 9 seats, ids are unique, players[i].seatIndex = i, and no
\* engine call deletes or reorders a seat.
C14_AddPlayer ==
  /\ \A id \in CallerIds : \A c \in Stacks(id) :
       \A r \in {addPlayer(Game, id, c)} : \A e \in {findPlayer(Game, id)} :
         /\ (e # -1 /\ ~At(players, e).connected) =>
              /\ r.ret = Success
              /\ At(r.g.players, e) = [At(players, e) EXCEPT !.connected = TRUE]
              /\ \A i \in Seats(Game) \ {e} : At(r.g.players, i) = At(players, i)
              /\ [r.g EXCEPT !.players = players] = Game
         /\ (e # -1 /\ At(players, e).connected) =>
              r.ret = Fail("Already seated") /\ r.g = Game
         /\ (e = -1 /\ Len(players) = MaxSeats) =>
              r.ret = Fail("Table is full") /\ r.g = Game
         /\ (e = -1 /\ Len(players) # MaxSeats) =>
              /\ r.ret = Success
              /\ Len(r.g.players) = Len(players) + 1
              /\ SubSeq(r.g.players, 1, Len(players)) = players
              /\ At(r.g.players, Len(players)).id = id
              /\ At(r.g.players, Len(players)).seatIndex = Len(players)
              /\ At(r.g.players, Len(players)).connected
              /\ [r.g EXCEPT !.players = players] = Game
  /\ Len(players) <= MaxSeats
  /\ \A i, j \in Seats(Game) : At(players, i).id = At(players, j).id => i = j
  /\ \A i \in Seats(Game) : At(players, i).seatIndex = i
  /\ \A g \in AnyCall : SubSeq(SeatIds(g), 1, Len(players)) = SeatIds(Game)

\* a full table with a disconnected seat: all four outcomes of addPlayer
\* occur from it
C14_Witness ==
  /\ Len(players) = MaxSeats
  /\ lastCall.op = "addPlayer"
  /\ \E i \in Seats(Game) : ~At(players, i).connected
  /\ \E i \in Seats(Game) : At(players, i).connected

\* a seat without its connected flag
Unplugged(p) == [p EXCEPT !.connected = FALSE]

\* C15: removePlayer(id) keeps every seat at its index with its chips, hand,
\* bet, folded and allIn, keeps pot, phase, currentIndex, callAmount, the
\* acted set and every other field of the game, and sets connected = false
\* on the seat of id only; reconnectPlayer(id) after it sets connected = true
\* again, which gives back the state before the disconnect of a connected
\* player.
C15_RemovePlayerFrame ==
  \A id \in CallerIds :
    \A g \in {removePlayer(Game, id)} : \A e \in {findPlayer(Game, id)} :
      /\ Len(g.players) = Len(players)
      /\ \A i \in Seats(Game) :
           /\ Unplugged(At(g.players, i)) = Unplugged(At(players, i))
           /\ At(g.players, i).connected = (i # e /\ At(players, i).connected)
      /\ g.pot = pot /\ g.phase = phase /\ g.currentIndex = currentIndex
      /\ g.callAmount = callAmount /\ g.actedThisRound = actedThisRound
      /\ [g EXCEPT !.players = players] = Game
      /\ e # -1 => At(reconnectPlayer(g, id).players, e).connected
      /\ (e # -1 /\ At(players, e).connected) => reconnectPlayer(g, id) = Game
      /\ e = -1 => reconnectPlayer(g, id) = Game

\* a player was removed during a hand with chips in front of them and the
\* turn on them
C15_Witness ==
  /\ phase \in Streets
  /\ currentIndex \in Seats(Game)
  /\ ~Actor.connected /\ ~Actor.folded /\ ~Actor.allIn
  /\ Actor.bet > 0 /\ Len(Actor.hand) = 2
  /\ lastCall.op = "applyAction"

\* the viewers of getStateFor: every id, seated or not, and 0 for null
Viewers == CallerIds \cup {0}

\* a card that tells nothing
Blank == [r |-> "?", s |-> "?"]

\* g with the hole cards of every player but v replaced by blank cards and
\* the remaining deck in another order
Scramble(g, v) ==
  [g EXCEPT !.players = [i \in 1..Len(g.players) |->
                           IF g.players[i].id = v THEN g.players[i]
                           ELSE [g.players[i] EXCEPT
                                   !.hand = [k \in 1..Len(g.players[i].hand) |-> Blank]]],
            !.deck = Reverse(g.deck)]

\* the hand fields of the view of v: the hand of v, and null for the others
HandsRedacted(g, v) ==
  \A i \in 1..Len(g.players) :
    getStateFor(g, v).players[i].hand =
      IF g.players[i].id = v THEN g.players[i].hand ELSE NullHand

\* the view without its log
Table(g, v) == [getStateFor(g, v) EXCEPT !.log = <<>>]

\* C16 as stated: in every state whose phase is not showdown the view of v
\* carries hole cards for the seat of v only, in the hand fields and in the
\* log, has no deck, and is the same when the hole cards of the others and
\* the order of the deck are changed.
C16_ViewHidesOthers ==
  phase # "showdown" =>
    \A v \in Viewers :
      /\ HandsRedacted(Game, v)
      /\ \A k \in 1..Len(getStateFor(Game, v).log) : getStateFor(Game, v).log[k].name = v
      /\ "deck" \notin DOMAIN getStateFor(Game, v)
      /\ getStateFor(Scramble(Game, v), v) = getStateFor(Game, v)

\* C16, amended: the phase is never showdown between two calls; the hand
\* fields of the view of v carry the hand of v and null for the others, the
\* view has no deck, and apart from its log it is the same when the hole
\* cards of the others and the order of the deck are changed; a line with
\* hole cards enters the log only when applyAction ends in a showdown, one
\* line for each player who has not folded, with that player's hole cards.
C16_HandFieldsHideOthers ==
  /\ phase # "showdown"
  /\ \A v \in Viewers :
       /\ HandsRedacted(Game, v)
       /\ "deck" \notin DOMAIN getStateFor(Game, v)
       /\ Table(Scramble(Game, v), v) = Table(Game, v)
  /\ \A g \in AnyCall : g.phase # "showdown"
  /\ \A r \in Outcomes :
       IF r.ret.advance = "showdown"
       THEN /\ r.g.log = showLines(r.g, 0) \o log
            /\ {l.name : l \in {showLines(r.g, 0)[k] : k \in 1..Len(showLines(r.g, 0))}} =
                 {At(r.g.players, i).id : i \in inHandPlayers(r.g)}
            /\ \A k \in 1..Len(showLines(r.g, 0)) :
                 \E i \in inHandPlayers(r.g) :
                   /\ At(r.g.players, i).id = showLines(r.g, 0)[k].name
                   /\ At(r.g.players, i).hand = showLines(r.g, 0)[k].cards
       ELSE r.g.log = log

\* a hand has just ended in a showdown between two players who still hold
\* their hole cards
C16_Witness ==
  /\ lastCall.op = "applyAction" /\ lastCall.advance = "showdown"
  /\ phase = "waiting"
  /\ Len(getStateFor(Game, 1).log) >= 2
  /\ \E i, j \in Seats(Game) :
       /\ i # j
       /\ Len(At(players, i).hand) = 2 /\ ~At(players, i).folded
       /\ Len(At(players, j).hand) = 2 /\ ~At(players, j).folded

\* the hole cards of the seats from i0 on, one after the other
RECURSIVE holeCards(_, _)
holeCards(g, i0) ==
  The({IF i >= Len(g.players) THEN <<>>
       ELSE At(g.players, i).hand \o holeCards(g, i + 1) : i \in {i0}})

\* every card of the table: hole cards, community cards and remaining deck
CardsOf(g) == holeCards(g, 0) \o g.community \o g.deck

\* C17: once a hand has been started, the hole cards of all players, the
\* community cards and the remaining deck are 52 cards, each of the 52
\* rank/suit cards exactly once.
C17_DeckIntegrity ==
  handNumber >= 1 =>
    \A cards \in {CardsOf(Game)} :
      /\ Len(cards) = Len(RANKS) * Len(SUITS)
      /\ {cards[k] : k \in 1..Len(cards)} =
           {[r |-> RANKS[i], s |-> SUITS[j]] : i \in 1..Len(RANKS), j \in 1..Len(SUITS)}

\* three players hold two cards each and the five community cards are out
C17_Witness ==
  /\ phase = "river"
  /\ Len(community) = 5
  /\ Cardinality({i \in Seats(Game) : Len(At(players, i).hand) = 2}) = 3
  /\ Len(deck) = 41
  /\ lastCall = [op |-> "applyAction", advance |-> "new_street"]

\* ------------------------------------------------------------------------
\* THE HAND EVALUATOR ON ITS OWN: two hands of five cards are drawn from a
\* few cards, and evalFive is applied to both.

Card(r, s) == [r |-> r, s |-> s]

EvalCards ==
  <<Card("2", "S"), Card("2", "H"), Card("2", "D"), Card("3", "S"), Card("3", "H"),
    Card("3", "D"), Card("4", "C"), Card("K", "D"), Card("A", "C"), Card("5", "C"),
    Card("Q", "H")>>

\* the hands of five distinct cards among the first NumEvalCards of EvalCards
EvalHands ==
  {[k \in 1..5 |-> EvalCards[f[k]]] :
     f \in {f \in [1..5 -> 1..NumEvalCards] : \A k \in 1..4 : f[k] < f[k + 1]}}

EvalInit ==
  /\ players = <<>>
  /\ community = <<>>
  /\ pot = 0
  /\ sidePots = <<>>
  /\ deck = <<>>
  /\ phase = "waiting"
  /\ dealerIndex = -1
  /\ currentIndex = -1
  /\ callAmount = 0
  /\ actedThisRound = {}
  /\ handNumber = 0
  /\ SMALL_BLIND = DEFAULT_SMALL_BLIND
  /\ BIG_BLIND = DEFAULT_BIG_BLIND
  /\ log = <<>>
  /\ lastCall = [op |-> "new", advance |-> ""]
  /\ committed = <<>>
  /\ evalIn \in EvalHands \X EvalHands
  /\ evalOut = <<>>
  /\ turnTimers = FALSE

EvalFive ==
  /\ evalOut = <<>>
  /\ evalOut' = <<evalFive(evalIn[1]), evalFive(evalIn[2])>>
  /\ UNCHANGED <<gameVars, lastCall, committed, evalIn, turnTimers>>

EvalNext == EvalFive

EvalSpec == EvalInit /\ [][EvalNext]_vars

\* the rank values of a hand by groups, the larger group first and within
\* groups of one size the higher rank first; the wheel counts 5 4 3 2 1
GroupKey(cards) ==
  LET vals == [i \in 1..Len(cards) |-> RANK_VAL[cards[i].r]]
      n(v) == Cardinality({j \in 1..Len(vals) : vals[j] = v})
      keyed == SortDesc([i \in 1..Len(vals) |-> n(vals[i]) * 100 + vals[i]])
      key == [i \in 1..Len(vals) |-> keyed[i] % 100]
  IN IF key = <<14, 5, 4, 3, 2>> THEN <<5, 4, 3, 2, 1>> ELSE key

\* a comes after b in the lexicographic order
LexGT(a, b) ==
  \E k \in 1..Len(a) : a[k] > b[k] /\ \A j \in 1..(k - 1) : a[j] = b[j]

\* C18: of two hands that evalFive puts in the same category, the one whose
\* rank groups (larger group first, then kickers) come later in the
\* lexicographic order has the higher score; and a hand of a higher category
\* has the higher score.
C18_ScoreOrdersByGroups ==
  evalOut # <<>> =>
    /\ evalOut[1].rank > evalOut[2].rank => ScoreGT(evalOut[1].score, evalOut[2].score)
    /\ (evalOut[1].rank = evalOut[2].rank /\ LexGT(GroupKey(evalIn[1]), GroupKey(evalIn[2])))
         => ScoreGT(evalOut[1].score, evalOut[2].score)

\* C19: in every reachable state every player's chips and bet and the pot
\* are at least 0 (the blinds of the settings are positive and the small
\* one is not above the big one).
C19_NonNegative ==
  /\ \A i \in Seats(Game) : At(players, i).chips >= 0 /\ At(players, i).bet >= 0
  /\ pot >= 0

\* a player with less than the big blind has posted it: the whole stack is
\* in, and it is less than the blind
C19_Witness ==
  /\ phase = "preflop"
  /\ lastCall.op = "startHand"
  /\ SMALL_BLIND <= BIG_BLIND
  /\ \E i \in Seats(Game) :
       /\ At(players, i).chips = 0
       /\ At(players, i).allIn
       /\ At(players, i).bet > 0
       /\ At(players, i).bet < BIG_BLIND
       /\ dealerIndex = i

\* C20: whenever the phase is waiting there is no seat to act: currentIndex
\* is -1 and applyAction fails with 'Not your turn' for every id, action and
\* amount.
C20_NobodyActsWhileWaiting ==
  phase = "waiting" =>
    /\ currentIndex = -1
    /\ getCurrentPlayer(Game) = -1
    /\ \A id \in CallerIds : \A a \in Actions : \A amt \in Amounts :
         applyAction(Game, id, a, amt).ret = Fail("Not your turn")

\* every call of applyAction, of startHand and of addPlayer that can be made
\* on the state and fails
FailedCalls ==
  {r \in {applyAction(Game, id, a, amt) : id \in CallerIds, a \in Actions, amt \in Amounts} \cup
          {startHand(Game, settings, k) : settings \in SettingsChoices, k \in Shuffles} \cup
          UNION {{addPlayer(Game, id, c) : c \in Stacks(id)} : id \in CallerIds} :
     r.ret.error # ""}

\* C4: a call of applyAction, startHand or addPlayer that fails returns one
\* of the eight messages and leaves every field of the game and of every
\* player as it was.
C4_FailuresChangeNothing ==
  \A r \in FailedCalls :
    /\ r.g = Game
    /\ r.ret.error \in {"Not your turn", "Cannot check, must call or fold",
                         "Raise must be higher than call amount", "Not enough chips",
                         "Unknown action", "Need at least 2 players", "Table is full",
                         "Already seated"}

\* a hand in progress in which the player to act owes chips: a check, a
\* low raise, an unknown action, an action out of turn and a second seat
\* for a seated id all fail
C4_Witness ==
  /\ TurnOpen
  /\ lastCall.op = "applyAction"
  /\ Actor.bet < callAmount
  /\ {r.ret.error : r \in FailedCalls} =
       {"Not your turn", "Cannot check, must call or fold",
        "Raise must be higher than call amount", "Unknown action", "Already seated"}

\* the changes of phase of the chain waiting, preflop, flop, turn, river,
\* (showdown,) waiting, and the early end of a hand on a betting street
PhaseStep(from, to) ==
  \/ from = "waiting" /\ to = "preflop"
  \/ from = "preflop" /\ to = "flop"
  \/ from = "flop" /\ to = "turn"
  \/ from = "turn" /\ to = "river"
  \/ from = "river" /\ to \in {"showdown", "waiting"}
  \/ from = "showdown" /\ to = "waiting"
  \/ from \in Streets /\ to = "waiting"

\* C5: every engine call that changes the phase makes a step of the chain
\* or ends the hand early; no street is left for an earlier one and preflop
\* is entered from waiting only.
C5_PhaseChain ==
  \A g \in AnyCall : g.phase # phase => PhaseStep(phase, g.phase)

\* C6: a successful applyAction that leaves exactly one player who has not
\* folded and holds hole cards returns hand_over; that player has all the
\* chips of the pot, those paid by the action included, and no other player
\* gains a chip; the pot is 0 and the phase waiting; no community card is
\* dealt and no hand is shown.
C6_LastPlayerWins ==
  \A r \in Outcomes :
    Cardinality(inHandPlayers(r.g)) = 1 =>
      /\ r.ret.advance = "hand_over"
      /\ r.g.pot = 0
      /\ r.g.phase = "waiting"
      /\ TotalChips(r.g.players) = TotalChips(players) + pot
      /\ \A i \in Seats(Game) \ inHandPlayers(r.g) :
           At(r.g.players, i).chips <= At(players, i).chips
      /\ r.g.community = community
      /\ r.g.deck = deck
      /\ r.g.log = log

\* a fold after the flop has left one player, who took the pot
C6_Witness ==
  /\ lastCall = [op |-> "applyAction", advance |-> "hand_over"]
  /\ phase = "waiting" /\ pot = 0
  /\ Len(community) >= 3
  /\ Cardinality(inHandPlayers(Game)) = 1
  /\ \E i \in inHandPlayers(Game) : At(players, i).chips > MaxStack

\* the best-of-seven score of seat i of g
ScoreAt(g, i) == bestOf7(At(g.players, i).hand \o g.community).score

\* the players of g who have not folded and whose score no other such
\* player beats
Best(g) ==
  The({{i \in inHandPlayers(g) : \A j \in inHandPlayers(g) : ~ScoreGT(sc[j], sc[i])} :
         sc \in {[i \in inHandPlayers(g) |-> ScoreAt(g, i)]}})

\* the chips the player p moves into the pot by action a with amount amt
Wager(p, a, amt) ==
  CASE a = "call" -> IF callAmount - p.bet < p.chips THEN callAmount - p.bet ELSE p.chips
    [] a = "raise" -> amt - p.bet
    [] a = "allin" -> p.chips
    [] OTHER -> 0

Min(a, b) == IF a < b THEN a ELSE b

\* C8: when an action ends in a showdown, a player who is all-in with c
\* chips committed during the hand gains at most, from every player, the
\* part of that player's contribution that does not exceed c.
C8_SidePots ==
  TurnOpen =>
    \A a \in Actions : \A amt \in AmountsOf(a) :
      \A r \in {applyAction(Game, Actor.id, a, amt)} :
        (r.ret.error = "" /\ r.ret.advance = "showdown") =>
          \A paid \in {Wager(Actor, a, amt)} :
            \A put \in {[i \in Seats(Game) |->
                           committed[i + 1] + (IF i = currentIndex THEN paid ELSE 0)]} :
              \A i \in Seats(Game) :
                At(r.g.players, i).allIn =>
                  At(r.g.players, i).chips
                    <= SumSeq([k \in 1..Len(players) |-> Min(put[i], put[k - 1])])

\* the first seat of the set e met when going round the table of n seats
\* from the seat after from
NextIn(e, from, n) ==
  CHOOSE j \in e : \A k \in e : (j - from - 1) % n <= (k - from - 1) % n

\* C9: startHand succeeds iff at least 2 seats have chips, are connected
\* and do not sit out; it then adds 1 to handNumber, leaves exactly those
\* seats not folded with 2 hole cards each and every other seat folded
\* without cards, leaves allIn set only where a blind has taken the whole
\* stack, empties the community cards and moves the dealer to the next such
\* seat after the previous dealer.
C9_StartHand ==
  \A settings \in SettingsChoices : \A k \in Shuffles :
    \A r \in {startHand(Game, settings, k)} : \A e \in {activePlayers(Game)} :
      /\ r.ret.error = "" <=> Cardinality(e) >= 2
      /\ r.ret.error = "" =>
           /\ r.g.handNumber = handNumber + 1
           /\ \A i \in Seats(Game) :
                /\ At(r.g.players, i).folded <=> i \notin e
                /\ Len(At(r.g.players, i).hand) = (IF i \in e THEN 2 ELSE 0)
                /\ At(r.g.players, i).allIn <=> (i \in e /\ At(r.g.players, i).chips = 0)
           /\ r.g.community = <<>>
           /\ r.g.dealerIndex = NextIn(e, dealerIndex, Len(players))

\* a second hand has been dealt to two players around a seat that takes no
\* part in it, and the dealer has moved on
C9_Witness ==
  /\ lastCall.op = "startHand"
  /\ handNumber = 2
  /\ phase = "preflop"
  /\ \E i \in Seats(Game) : At(players, i).folded /\ At(players, i).hand = <<>>
  /\ Cardinality(inHandPlayers(Game)) = 2
  /\ dealerIndex # 0

\* what C10 says of the game g that startHand gives from the state, but for
\* the seat to act: sb and bb are the small and the big blind's seats
BlindsPosted(g, sb, bb) ==
  /\ sb # bb
  /\ At(g.players, sb).bet = Min(g.SMALL_BLIND, At(players, sb).chips)
  /\ At(g.players, bb).bet = Min(g.BIG_BLIND, At(players, bb).chips)
  /\ \A i \in Seats(Game) :
       /\ i \notin {sb, bb} => At(g.players, i).bet = 0
       /\ At(g.players, i).chips = At(players, i).chips - At(g.players, i).bet
       /\ i \in {sb, bb} => (At(g.players, i).allIn <=> At(g.players, i).chips = 0)
  /\ g.pot = At(g.players, sb).bet + At(g.players, bb).bet
  /\ g.callAmount = g.BIG_BLIND
  /\ g.phase = "preflop"

\* the seats of g that are neither folded nor all-in
Able(g) == {i \in Seats(g) : ~At(g.players, i).folded /\ ~At(g.players, i).allIn}

\* C10: after a successful startHand the small blind is the next eligible
\* seat after the dealer and the big blind the next eligible seat after it;
\* both have posted min(blind, chips), the pot is the sum of the two, the
\* call amount is the big blind, the phase is preflop, and the seat to act
\* is the first seat after the big blind that is neither folded nor all-in.
C10_BlindsAndFirstToAct ==
  \A settings \in SettingsChoices : \A k \in Shuffles :
    \A r \in {startHand(Game, settings, k)} : \A e \in {activePlayers(Game)} :
      r.ret.error = "" =>
        \A sb \in {NextIn(e, r.g.dealerIndex, Len(players))} :
          \A bb \in {NextIn(e, sb, Len(players))} :
            /\ BlindsPosted(r.g, sb, bb)
            /\ Able(r.g) # {}
            /\ r.g.currentIndex = NextIn(Able(r.g), bb, Len(players))

\* the highest bet of the table
RECURSIVE maxBetFrom(_, _)
maxBetFrom(ps, i0) ==
  The({IF i > Len(ps) THEN 0
       ELSE The({IF ps[i].bet > m THEN ps[i].bet ELSE m : m \in {maxBetFrom(ps, i + 1)}}) :
         i \in {i0}})

MaxBet == maxBetFrom(players, 1)

CallAfter(p, a, amt) ==
  CASE a = "raise" -> amt
    [] a = "allin" -> IF p.bet + p.chips > callAmount THEN p.bet + p.chips ELSE callAmount
    [] OTHER -> callAmount

\* the acted set once the player p has made action a
ActedAfter(p, a) ==
  IF a = "raise" \/ (a = "allin" /\ p.bet + p.chips > callAmount)
  THEN {p.id} ELSE actedThisRound \cup {p.id}

\* the seats that still have to act once the seat to act has made action a
\* with amount amt, g being the game the call leaves: neither folded nor
\* all-in, and not yet acted or with a bet below the call amount
Pending(g, a, amt) ==
  {i \in Seats(Game) :
     /\ ~At(g.players, i).folded
     /\ ~At(g.players, i).allIn
     /\ \/ At(players, i).id \notin ActedAfter(Actor, a)
        \/ At(players, i).bet + (IF i = currentIndex THEN Wager(Actor, a, amt) ELSE 0)
             < CallAfter(Actor, a, amt)}

\* C22: a successful action that leaves at least 2 players in the hand
\* closes the street iff no seat still has to act; otherwise the turn goes
\* to the first such seat after the actor.
C22_TurnOrder ==
  currentIndex \in Seats(Game) =>
    \A a \in Actions : \A amt \in AmountsOf(a) :
      \A r \in {applyAction(Game, Actor.id, a, amt)} :
        (r.ret.error = "" /\ Cardinality(inHandPlayers(r.g)) >= 2) =>
          \A pend \in {Pending(r.g, a, amt)} :
            /\ r.ret.advance \in {"new_street", "showdown"} <=> pend = {}
            /\ pend # {} =>
                 /\ r.ret.advance = "next_turn"
                 /\ r.g.currentIndex = NextIn(pend, currentIndex, Len(players))
                 /\ r.g.phase = phase
                 /\ r.g.community = community

\* preflop, three players: the others have just called and the turn is on
\* the big blind, who has not acted
C22_Witness ==
  /\ phase = "preflop"
  /\ lastCall = [op |-> "applyAction", advance |-> "next_turn"]
  /\ Cardinality(inHandPlayers(Game)) = 3
  /\ \A i \in Seats(Game) : At(players, i).bet = callAmount
  /\ callAmount = BIG_BLIND
  /\ Actor.id \notin actedThisRound
  /\ Cardinality(actedThisRound) = 2

\* the number of community cards each street shows
StreetCards == [preflop |-> 0, flop |-> 3, turn |-> 4, river |-> 5]

\* C23: on every street the community holds the street's number of cards,
\* and right after a street change every bet is 0, callAmount is 0 and
\* nobody has acted.
C23_StreetShape ==
  /\ phase \in Streets => Len(community) = StreetCards[phase]
  /\ \A r \in Outcomes :
       r.ret.advance = "new_street" =>
         /\ r.g.phase \in Streets => Len(r.g.community) = StreetCards[r.g.phase]
         /\ \A i \in Seats(r.g) : At(r.g.players, i).bet = 0
         /\ r.g.callAmount = 0
         /\ r.g.actedThisRound = {}

\* the river has just been dealt after a turn with betting in it
C23_Witness ==
  /\ phase = "river"
  /\ lastCall = [op |-> "applyAction", advance |-> "new_street"]
  /\ Len(community) = 5
  /\ callAmount = 0
  /\ actedThisRound = {}
  /\ pot > BIG_BLIND * 2

\* a hand in progress always has an action that succeeds, and a successful
\* raise lifts callAmount to an amount within the raiser's stack
NeverStuck ==
  /\ phase \in Streets => Outcomes # {}
  /\ currentIndex \in Seats(Game) =>
       \A amt \in Amounts :
         \A r \in {applyAction(Game, Actor.id, "raise", amt)} :
           r.ret.error = "" =>
             /\ amt > callAmount
             /\ amt <= Actor.chips + Actor.bet
             /\ r.ret.advance = "next_turn" => r.g.callAmount = amt

\* C24: every hand terminates: while the seat to act keeps submitting
\* successful actions, a hand in progress comes back to waiting (or is
\* replaced by a new hand), and a hand in progress is never stuck.
C24_HandTerminates ==
  /\ []NeverStuck
  /\ \A h \in 1..MaxPlayedHands :
       (phase \in Streets /\ handNumber = h) ~> (phase = "waiting" \/ handNumber # h)

\* a hand that went through a raise and all the streets, now settled
C24_Witness ==
  /\ phase = "waiting"
  /\ lastCall = [op |-> "applyAction", advance |-> "showdown"]
  /\ Len(community) = 5
  /\ pot = 0
  /\ \E i \in Seats(Game) : At(players, i).chips > MaxStack + BIG_BLIND

\* C25: startHand never destroys chips: whenever it succeeds, the sum over
\* all players of chips plus the pot is the same after the call as before.
C25_StartHandConserves ==
  \A settings \in SettingsChoices : \A k \in Shuffles :
    \A r \in {startHand(Game, settings, k)} :
      r.ret.error = "" =>
        TotalChips(r.g.players) + r.g.pot = TotalChips(players) + pot

\* C26: with a turn timer configured, a turn timer is pending after the
\* server has handled a game:action message that leaves a hand in progress,
\* whether the action was accepted or rejected and whoever sent it.
C26_TimerPendingAfterAction ==
  DEFAULT_TURN_TIMER > 0 =>
    \A id \in Senders : \A a \in Actions : \A amt \in AmountsOf(a) :
      \A r \in {gameAction(Game, id, a, amt)} :
        r.g.phase \in Streets => r.timer
====
